---- MODULE Spec2Model ----
(***************************************************************************)
(* Model of the Channel of the OpenDXL streaming client (lib/channel.js)   *)
(* and of its ChannelAuth strategy.                                        *)
(*                                                                         *)
(* JavaScript runs every callback to completion, so one action of the      *)
(* model is one task of the event loop: a call made by the application, a  *)
(* response delivered by the HTTP transport, a timer that fires, a         *)
(* setImmediate callback, or a signal of the process callback.  Whatever   *)
(* the task calls synchronously is part of the same action.  Pending       *)
(* tasks are kept in the bag `tasks`.                                      *)
(***************************************************************************)
EXTENDS Integers, Sequences, FiniteSets, Bags, TLC

\* ------------------------------------------------------------------ bounds
MaxRuns == 1        \* run calls made by the application
MaxStops == 1       \* stop calls made by the application
MaxExt == 1         \* other calls made by the application
MaxSubs == 2        \* subscribe calls made by the application
MaxDestroys == 1    \* destroy calls made by the application
MaxFail == 1        \* responses other than a success that the server gives
MaxIds == 2         \* consumer instance ids the server hands out
MaxTok == 2         \* tokens the login endpoint hands out
MaxRecords == 1     \* records the server delivers
MaxProc == 2        \* invocations of the process callback
MaxAtt == 11        \* retries of one operation
MaxSeqSubs == 3     \* subscribe calls made one after the other

NULL == 0

\* The options of retry.operation
RETRY_FACTOR == 2
MIN_RETRY_TIMEOUT == 1000
MAX_RETRY_TIMEOUT == 10000

\* Topic lists the application passes to subscribe, and to run
TopicLists == {<<"t1">>, <<"t1", "t2">>, <<"t2", "t1">>}
RunTopics == {<<"t1">>}

VARIABLES
    consumerId,              \* channel._consumerId (NULL or an id)
    activeSubscriptions,     \* channel._activeSubscriptions
    requestedSubscriptions,  \* channel._requestedSubscriptions
    recordsCommitLog,        \* channel._recordsCommitLog
    active,                  \* channel._active
    running,                 \* channel._running
    stopRequested,           \* channel._stopRequested
    stopCallbacks,           \* channel._stopCallbacks
    runLoopFunc,             \* channel._runLoopFunc is set
    runLoopTimeout,          \* channel._runLoopTimeout is set
    retryOnFail,             \* channel.retryOnFail
    consumerGroup,           \* channel._consumerGroup is set
    hasAuth,                 \* channel._auth is set
    token,                   \* auth._token (NULL or a token)
    currentSubscriptions,    \* closure variable of each run call
    tasks,                   \* pending tasks of the event loop
    ctr,                     \* counters that bound the environment
    hist                     \* what the application and the server observed

vars == <<consumerId, activeSubscriptions, requestedSubscriptions,
          recordsCommitLog, active, running, stopRequested, stopCallbacks,
          runLoopFunc, runLoopTimeout, retryOnFail, consumerGroup, hasAuth,
          token, currentSubscriptions, tasks, ctr, hist>>

\* ------------------------------------------------------------- error kinds
\* "none" is a null error; "Transport" is the Error of the transport, passed
\* on unchanged; "Process" is an error of the process callback; "Runtime" is
\* a TypeError or SyntaxError raised by the JavaScript runtime.
ErrorKinds == {"none", "Temporary", "TemporaryAuthentication", "Consumer",
               "Permanent", "PermanentAuthentication", "Stop", "Transport",
               "Process", "Runtime"}

\* error instanceof ConsumerError
IsConsumerError(e) == e = "Consumer"

\* error instanceof StopError
IsStopError(e) == e = "Stop"

\* error instanceof TemporaryError (ConsumerError and
\* TemporaryAuthenticationError inherit from it)
IsTemporaryError(e) == e \in {"Temporary", "TemporaryAuthentication", "Consumer"}

\* error instanceof PermanentError
IsPermanentError(e) == e \in {"Permanent", "PermanentAuthentication"}

\* ------------------------------------------------------------------- tasks
\* k:    "login" (login request in flight), "http" (channel request in
\*       flight), "backoff" (timer of the retry operation), "imm"
\*       (setImmediate), "wait" (timer between queries), "proc" (process
\*       callback that will invoke its completion callback)
\* op:   the operation the task belongs to
\* own:  whose completion callback ends the operation: "user", "run" (the
\*       run loop `run`), "destroy"
\* via:  "subscribe" for a create issued by subscribe (then `topics`)
\* att:  the retries of the operation so far; wait: the timeout of a backoff
\*       timer, in milliseconds
\* throws: the stop callback throws when it is invoked
\* late: the request was sent, or the timer set, no earlier than the turn of
\*       the event loop in which a pending setImmediate callback was
\*       scheduled: that callback runs first
Task(k, op, own, run) ==
    [k |-> k, op |-> op, own |-> own, run |-> run, via |-> "",
     topics |-> <<>>, cid |-> NULL, body |-> <<>>, live |-> FALSE,
     att |-> 0, err |-> "none", cont |-> FALSE, ref |-> FALSE,
     tok |-> NULL, iter |-> 0, cb |-> 0, sig |-> FALSE, late |-> FALSE,
     wait |-> 0, throws |-> FALSE]

Add(s, t) ==
    LET new == [t EXCEPT !.late = t.k \in {"http", "login", "wait", "backoff"}]
    IN [s EXCEPT !.tasks = @ (+) SetToBag({new})]

Remove(s, t) == [s EXCEPT !.tasks = @ (-) SetToBag({t})]

RECURSIVE SumOver(_, _)
SumOver(S, B) ==
    IF S = {} THEN 0
    ELSE LET e == CHOOSE x \in S : TRUE
         IN CopiesIn(e, B) + SumOver(S \ {e}, B)

\* What happens to a pending task when the state it refers to changes:
\* "freeze": the commit log array it holds is no longer the channel's;
\* "grow": entries are pushed onto the commit log array it holds;
\* "orphan": its timer is no longer channel._runLoopTimeout;
\* "early": no setImmediate callback is pending any more
Change(m, t) ==
    CASE m.f = "freeze" -> [t EXCEPT !.live = FALSE]
      [] m.f = "grow" -> IF t.live THEN [t EXCEPT !.body = @ \o m.entries] ELSE t
      [] m.f = "orphan" -> [t EXCEPT !.ref = FALSE]
      [] m.f = "early" -> [t EXCEPT !.late = FALSE]

\* The bag B with the change m applied to each of its elements
BagMap(m, B) ==
    LET S == BagToSet(B)
        T == {Change(m, e) : e \in S}
    IN [x \in T |-> SumOver({e \in S : Change(m, e) = x}, B)]

Min(a, b) == IF a < b THEN a ELSE b

\* The state of the program as one record, so that the handlers compose
St ==
    [consumerId |-> consumerId,
     activeSubscriptions |-> activeSubscriptions,
     requestedSubscriptions |-> requestedSubscriptions,
     recordsCommitLog |-> recordsCommitLog,
     active |-> active, running |-> running,
     stopRequested |-> stopRequested, stopCallbacks |-> stopCallbacks,
     runLoopFunc |-> runLoopFunc, runLoopTimeout |-> runLoopTimeout,
     retryOnFail |-> retryOnFail, consumerGroup |-> consumerGroup,
     hasAuth |-> hasAuth, token |-> token,
     currentSubscriptions |-> currentSubscriptions,
     tasks |-> tasks, ctr |-> ctr, hist |-> hist,
     \* inputs of the task being run: the response (list: the body of a
     \* consume response has a records list; bad: the first record whose
     \* payload cannot be decoded, 0 when all can) and what the process
     \* callback does
     inp |-> [outcome |-> "", id |-> NULL, n |-> 0, tk |-> NULL,
              list |-> TRUE, bad |-> 0,
              pm |-> [ret |-> "undef", cb |-> "none", cbErr |-> FALSE,
                      cbCont |-> FALSE, err |-> "Process"]],
     \* the call stack of the task: the calls still to be made, innermost
     \* first
     stack |-> <<>>,
     \* bookkeeping of the task: an exception left the call stack; the
     \* commit log when commit was entered
     threw |-> FALSE,
     entryLog |-> recordsCommitLog,
     \* the error last given to a completion callback by the task ("" when
     \* none was invoked)
     res |-> "",
     \* the error of a failed attempt that is to be forwarded ("" once the
     \* completion callback has been given it)
     fwd |-> "",
     \* the callbacks of the request executor that the task has invoked
     cbs |-> <<>>,
     \* the exit of a run in the task: it began, with n stop callbacks
     \* registered, of which `called` have been invoked, and the done
     \* callback has been invoked
     exit |-> [began |-> FALSE, n |-> 0, called |-> 0, done |-> FALSE],
     \* the retry driver was entered, or an attempt was due, in the task
     \* while the channel was not active; the errors that completion
     \* callbacks were given in the task from then on
     driven |-> FALSE,
     completed |-> <<>>,
     \* the exception being thrown: channel code throws a PermanentError
     exc |-> "Permanent",
     \* the error with which the process callback of a run failed in the
     \* task
     failed |-> [run |-> 0, err |-> ""]]

\* setImmediate callbacks run in the turn of the event loop in which they
\* were scheduled: once none is pending, every request may be answered and
\* every timer may fire
Settle(B) ==
    IF \E t \in BagToSet(B) : t.k = "imm" THEN B ELSE BagMap([f |-> "early"], B)

\* Requests of the operations that the retry driver drives, in flight or
\* waiting for a login
DrivenRequests(B) ==
    SumOver({t \in BagToSet(B) :
                /\ t.op \in {"create", "subscribe", "consume", "commit"}
                /\ t.k \in {"http", "login"}}, B)

\* Observation of a task in which the retry driver was entered, or an
\* attempt was due, on a channel that was not active: a PermanentError was
\* given to one completion callback, no request was sent and no timer set
ObserveInactive(s) ==
    s.driven =>
        /\ s.completed = <<"Permanent">>
        /\ DrivenRequests(s.tasks) <= DrivenRequests(tasks)
        /\ \A t \in BagToSet(s.tasks) :
              t.k = "backoff" => CopiesIn(t, s.tasks) <= CopiesIn(t, tasks)

\* Observation of a task in which the process callback of a run failed: the
\* run has left through its exit and its done callback was given the error
ObserveFailed(s) ==
    s.failed.err # "" =>
        /\ ~s.running
        /\ s.exit.done
        /\ s.hist.doneCount[s.failed.run] = 1
        /\ s.hist.doneErr[s.failed.run] = s.failed.err

Apply(s) ==
    /\ consumerId' = s.consumerId
    /\ activeSubscriptions' = s.activeSubscriptions
    /\ requestedSubscriptions' = s.requestedSubscriptions
    /\ recordsCommitLog' = s.recordsCommitLog
    /\ active' = s.active
    /\ running' = s.running
    /\ stopRequested' = s.stopRequested
    /\ stopCallbacks' = s.stopCallbacks
    /\ runLoopFunc' = s.runLoopFunc
    /\ runLoopTimeout' = s.runLoopTimeout
    /\ retryOnFail' = s.retryOnFail
    /\ consumerGroup' = s.consumerGroup
    /\ hasAuth' = s.hasAuth
    /\ token' = s.token
    /\ currentSubscriptions' = s.currentSubscriptions
    /\ tasks' = Settle(s.tasks)
    /\ ctr' = s.ctr
    /\ hist' = [s.hist EXCEPT !.exitOk = @ /\ (s.exit.began => s.exit.done),
                              !.inactiveOk = @ /\ ObserveInactive(s),
                              !.failOk = @ /\ ObserveFailed(s)]

\* -------------------------------------------------------------- call stack
\* A call to be made: the function f with the request or operation t it
\* works on, an error err and a flag b
F(f, t, err, b) == [f |-> f, t |-> t, err |-> err, b |-> b]

Call(f, t) == F(f, t, "none", FALSE)

\* The calls fs are made next, in order, before what the callers still have
\* to do
Push(s, fs) == [s EXCEPT !.stack = fs \o @]

\* An exception is thrown: the calls up to the innermost try block are
\* abandoned.  The try blocks are that of channel._consumeForRun ("Catch"),
\* whose catch clause calls its doneCallback with the error s.exc, and that around
\* each stop callback in channel._handleRunError ("StopCatch"), whose catch
\* clause only logs.  Observation: the checks abandoned with the stack have
\* failed.
Throw(s) ==
    LET tries == {i \in 1..Len(s.stack) : s.stack[i].f \in {"Catch", "StopCatch"}}
        n == IF tries = {} THEN Len(s.stack)
             ELSE CHOOSE i \in tries : \A j \in tries : i <= j
        dropped == {s.stack[i].f : i \in 1..n}
        s1 == [s EXCEPT !.hist.restartOk = @ /\ "ObserveRestart" \notin dropped,
                        !.hist.resubOk = @ /\ "ObserveResubscribe" \notin dropped]
    IN IF tries = {}
       THEN [s1 EXCEPT !.stack = <<>>, !.threw = TRUE]
       ELSE IF s.stack[n].f = "StopCatch"
       THEN [s1 EXCEPT !.stack = SubSeq(s.stack, n + 1, Len(s.stack))]
       ELSE [s1 EXCEPT !.stack =
                <<F("ConsumeLoopCallback", s.stack[n].t, s.exc, FALSE)>>
                \o SubSeq(s.stack, n + 1, Len(s.stack))]

\* ------------------------------------------------- observations (history)
\* callbackAsync / a completion callback of the application is invoked
UserCallback(s, op, err) ==
    [s EXCEPT !.hist.last = [op |-> op, err |-> err], !.res = err]

\* --------------------------------------------------------- consumer state
\* channel._recordsCommitLog = []: requests that hold the old array keep it
ReplaceLog(s) ==
    [s EXCEPT !.recordsCommitLog = <<>>, !.tasks = BagMap([f |-> "freeze"], @)]

\* Observation: the records returned by successful consume calls since the
\* last successful commit or reset
Expect(s, entries) == [s EXCEPT !.hist.expected = entries]

\* channel._recordsCommitLog.push(...): seen by whoever holds the array
PushLog(s, entries) ==
    [s EXCEPT !.recordsCommitLog = @ \o entries,
              !.tasks = BagMap([f |-> "grow", entries |-> entries], @)]

\* Channel.prototype.reset
Reset(s) ==
    [Expect(ReplaceLog(s), <<>>) EXCEPT !.consumerId = NULL,
                          !.activeSubscriptions = <<>>,
                          !.requestedSubscriptions = <<>>]

\* Mutant of AlreadySubscribed: only the lengths are compared
AlreadySubscribedLength(s, topics) ==
    Len(topics) = Len(s.activeSubscriptions)

\* channel._alreadySubscribed
AlreadySubscribed(s, topics) ==
    /\ Len(topics) = Len(s.activeSubscriptions)
    /\ \A i \in 1..Len(topics) : topics[i] = s.activeSubscriptions[i]

\* Observation of a step of the run loop `run`: it is taken in one of the
\* phases `from` and leads to the phase `to`.  The phases are "start",
\* "subscribing" (a create or subscription request was sent), "subscribed",
\* "consuming" (a consume request was sent), "processing" (the process
\* callback was invoked), "committing" (commit was called), "waiting",
\* "waited" and "lost" (a ConsumerError was observed); the phase is no
\* longer recorded once a step was out of order
Phase(s, run, from, to) ==
    IF s.hist.loopOk /\ s.hist.phase[run] \in from
    THEN [s EXCEPT !.hist.phase[run] = to]
    ELSE [s EXCEPT !.hist.loopOk = FALSE,
                   !.hist.phase = [r \in 1..MaxRuns |-> ""]]

\* ------------------------------------------------------- request executor
\* Observation of a request that is sent; afterDone: it is sent for a run
\* whose done callback has been invoked
ObserveSend(s0, t) ==
    LET s5 == CASE t.own # "run" -> s0
               [] t.op = "consume" ->
                     Phase(s0, t.run, {"subscribed", "waited", "consuming"},
                           "consuming")
               [] t.op \in {"create", "subscribe"} ->
                     Phase(s0, t.run, {"start", "lost", "subscribing"},
                           "subscribing")
               [] t.op = "commit" ->
                     Phase(s0, t.run, {"committing"}, "committing")
               [] OTHER -> s0
        s == [s5 EXCEPT !.hist.sentAfterFail =
                @ \/ (t.own = "run" /\ t.op \in {"consume", "commit"}
                      /\ t.run \in s5.hist.failedRuns),
                        !.hist.afterDone =
                @ \/ (t.own = "run" /\ t.op \in {"consume", "commit", "subscribe"}
                      /\ s5.hist.doneCount[t.run] > 0)]
    IN
    CASE t.op = "commit" ->
            [s EXCEPT !.hist.commitExact = @ /\ t.body = s.hist.expected,
                      !.hist.replayed = @ \/ \E i \in 1..Len(t.body) :
                            /\ t.body[i].cid \in s.hist.lost
                            /\ t.cid \notin s.hist.lost \cup {NULL}]
      [] t.op = "consume" /\ t.own = "run" ->
            [s EXCEPT !.hist.badConsume = @ \/ s.hist.recov \in {"reset", "created"},
                      !.hist.sentLost = @ \/ t.cid \in s.hist.lost,
                      !.hist.recov = IF @ = "subscribed" THEN "none" ELSE @,
                      !.hist.consumedAfterEnd = @ \/ s.hist.endSig[t.run],
                      !.hist.consumedAfterStop = @ \/ s.hist.stoppedInWait[t.run]]
      [] OTHER -> s

\* Observation of the token a request is sent with: it was rejected before
ObserveToken(s) ==
    [s EXCEPT !.hist.staleSent =
        @ \/ (s.hasAuth /\ s.token # NULL /\ s.token \in s.hist.rejected)]

\* channel._sendRequestWithAuthInfo, the sending half: sendFunc(options, ..)
SendRequestWithAuthInfo(s, fr) ==
    Add(ObserveToken(ObserveSend(s, fr.t)),
        [fr.t EXCEPT !.k = "http", !.tok = s.token, !.live = FALSE])

\* channel._sendRequest with ChannelAuth.authenticate: a cached token is
\* attached at once, otherwise a login request is made first
SendRequest(s, fr) ==
    IF s.hasAuth /\ s.token = NULL
    THEN Add(s, [fr.t EXCEPT !.k = "login"])
    ELSE Push(s, <<Call("SendRequestWithAuthInfo", fr.t)>>)

\* The operationCallback of each retried operation: builds the request from
\* the state at the time of the attempt
Operation(s, fr) ==
    LET t == fr.t
    IN CASE t.op = "create" -> Push(s, <<Call("SendRequest", t)>>)
         [] t.op \in {"subscribe", "consume"} ->
               Push(s, <<Call("SendRequest", [t EXCEPT !.cid = s.consumerId])>>)
         [] t.op = "commit" ->
               Push(s, <<Call("SendRequest",
                              [t EXCEPT !.cid = s.consumerId,
                                        !.body = s.recordsCommitLog,
                                        !.live = TRUE])>>)

\* operation.retry(error) of the retry module, created with forever: true:
\* it schedules another attempt for every error
OperationRetry(err) == err # "none"

\* Mutant of ShouldRetry: a ConsumerError is retried like any other error
ShouldRetryAny(s, err) ==
    /\ err # "none"
    /\ s.retryOnFail
    /\ OperationRetry(err)

RECURSIVE Pow(_, _)
Pow(b, e) == IF e = 0 THEN 1 ELSE b * Pow(b, e - 1)

\* The retries option of the retry package, which channel._retryOnFailure
\* leaves at its default
RetryRetries == 10

\* retry.createTimeout(attempt, opts), randomize being false
CreateTimeout(attempt) ==
    Min(MIN_RETRY_TIMEOUT * Pow(RETRY_FACTOR, attempt), MAX_RETRY_TIMEOUT)

\* retry.timeouts(opts): one timeout per retry, in ascending order
Timeouts == [i \in 1..RetryRetries |-> CreateTimeout(i - 1)]

\* The timeout that operation.retry takes for retry number n (0, 1, 2, ..)
\* of an operation created with forever: true: the timeouts are taken from
\* the front of the list, and the list is filled again once it is empty
RetryTimeout(n) == Timeouts[(n % Len(Timeouts)) + 1]

\* The test of channel._retryOnFailure that decides on another attempt
ShouldRetry(s, err) ==
    /\ err # "none"
    /\ ~IsConsumerError(err)
    /\ s.retryOnFail
    /\ OperationRetry(err)

\* Observation of an attempt that failed with err: a ConsumerError, or any
\* error when retryOnFail is false, is to be forwarded
ObserveFailure(s, err) ==
    IF err # "none" /\ (IsConsumerError(err) \/ ~s.retryOnFail)
    THEN [s EXCEPT !.fwd = err] ELSE s

\* Mutant of Attempt: an attempt does not test whether the channel is active
AttemptUnchecked(s0, fr) ==
    LET s == [s0 EXCEPT !.driven = @ \/ ~s0.active,
                        !.hist.closedInBackoff = @ \/ ~s0.active]
    IN IF s.running /\ s.stopRequested
       THEN Push(s, <<F("Complete", fr.t, "Stop", FALSE)>>)
       ELSE Push(s, <<Call("Operation", fr.t)>>)

\* The function given to operation.attempt.  Observation: an attempt was
\* due on a channel that is not active
Attempt(s0, fr) ==
    LET s == [s0 EXCEPT !.driven = @ \/ ~s0.active,
                        !.hist.closedInBackoff = @ \/ ~s0.active]
    IN IF ~s.active THEN Push(s, <<F("Complete", fr.t, "Permanent", FALSE)>>)
       ELSE IF s.running /\ s.stopRequested
       THEN Push(s, <<F("Complete", fr.t, "Stop", FALSE)>>)
       ELSE Push(s, <<Call("Operation", fr.t)>>)

\* channel._retryOnFailure: the first attempt is made synchronously
RetryOnFailure(s0, fr) ==
    LET s == [s0 EXCEPT !.driven = @ \/ ~s0.active]
    IN IF ~s.active THEN Push(s, <<F("Complete", fr.t, "Permanent", FALSE)>>)
       ELSE Push(s, <<Call("Attempt", fr.t)>>)

\* The callback handed to the operationCallback
RetryCallback(s, fr) ==
    IF ShouldRetry(s, fr.err)
    THEN Add(ObserveFailure(s, fr.err),
             [fr.t EXCEPT !.k = "backoff", !.att = Min(@ + 1, MaxAtt),
                          !.wait = RetryTimeout(fr.t.att),
                          !.err = fr.err, !.tok = NULL, !.body = <<>>,
                          !.live = FALSE, !.cid = NULL])
    ELSE Push(ObserveFailure(s, fr.err), <<F("Complete", fr.t, fr.err, FALSE)>>)

\* ------------------------------------------------------ channel operations
\* Channel.prototype.create
Create(s, fr) ==
    IF ~s.consumerGroup THEN Throw(s)
    ELSE Push(Reset(s), <<Call("RetryOnFailure", fr.t)>>)

\* channel._subscribe
SubscribeInternal(s, fr) ==
    Push([s EXCEPT !.requestedSubscriptions = fr.t.topics],
         <<Call("RetryOnFailure", fr.t)>>)

\* Channel.prototype.subscribe
Subscribe(s, fr) ==
    LET t == fr.t
    IN IF Len(t.topics) = 0 THEN Throw(s)
       ELSE IF AlreadySubscribed(s, t.topics)
       THEN Add(s, [Task("imm", "subscribe", t.own, t.run) EXCEPT
                       !.topics = t.topics])
       ELSE IF s.consumerId # NULL
       THEN Push(s, <<Call("SubscribeInternal", t)>>)
       ELSE Push(s, <<Call("Create", [t EXCEPT !.op = "create",
                                               !.via = "subscribe"])>>)

\* Channel.prototype.consume
Consume(s, fr) ==
    IF Len(s.activeSubscriptions) = 0 THEN Throw(s)
    ELSE Push(s, <<Call("RetryOnFailure", fr.t)>>)

\* Channel.prototype.commit
Commit(s, fr) ==
    IF Len(s.recordsCommitLog) > 0
    THEN Push([s EXCEPT !.entryLog = s.recordsCommitLog],
              <<Call("RetryOnFailure", fr.t)>>)
    ELSE Add(s, [fr.t EXCEPT !.k = "imm"])

\* Channel.prototype.delete
Delete(s, fr) ==
    LET t == [fr.t EXCEPT !.cid = s.consumerId]
    IN IF s.consumerId # NULL
       THEN Push(s, <<Call("SendRequest", t)>>)
       ELSE Add(s, [t EXCEPT !.k = "imm"])

\* Channel.prototype.produce
Produce(s, fr) == Push(s, <<Call("SendRequest", fr.t)>>)

\* ---------------------------------------------------------------- run loop
\* The callback that destroy hands to delete
DestroyDeleted(s, fr) ==
    IF fr.err # "none"
    THEN UserCallback([s EXCEPT !.hist.destroyLeftActive = TRUE], "destroy", fr.err)
    ELSE UserCallback([s EXCEPT !.active = FALSE], "destroy", "none")

\* The callback of delete
DeleteCallback(s, fr) ==
    IF fr.t.own = "destroy" THEN Push(s, <<F("DestroyDeleted", fr.t, fr.err, FALSE)>>)
    ELSE UserCallback(s, "delete", fr.err)

\* One callback of channel._stopCallbacks is invoked: the callback of a stop
\* call of the application, or the one destroy registered, which deletes
\* Observation when fr.b, that is at the exit of a run: running and
\* stopRequested are cleared and the done callback has not been invoked
StopCallback(s0, fr) ==
    LET s == IF fr.b
             THEN [s0 EXCEPT !.exit.called = @ + 1,
                             !.hist.exitOk = @ /\ ~s0.running /\ ~s0.stopRequested
                                               /\ ~s0.exit.done]
             ELSE s0
    IN IF fr.t.own = "destroy"
       THEN Push(s, <<Call("Delete", [fr.t EXCEPT !.op = "delete"])>>)
       ELSE LET s1 == [s EXCEPT !.hist.stopCbCount[fr.t.cb] = @ + 1,
                                !.hist.stopCbWhileRunning =
                                    @ \/ (s.running /\ fr.t.cb \in s.hist.stopRegistered)]
            IN IF fr.t.throws THEN Throw(s1) ELSE s1

\* The try block around a stop callback is left without an exception
StopCatch(s, fr) == s

\* The calls of the callbacks of channel._stopCallbacks, in order, each in
\* its try block
RECURSIVE InvokeStopCallbacks(_)
InvokeStopCallbacks(cbs) ==
    IF cbs = <<>> THEN <<>>
    ELSE LET t == [Task("", "stop", Head(cbs).own, 0) EXCEPT
                      !.cb = Head(cbs).id, !.throws = Head(cbs).throws]
         IN <<F("StopCallback", t, "none", TRUE), Call("StopCatch", t)>>
            \o InvokeStopCallbacks(Tail(cbs))

\* The doneCallback of run is invoked.  Observation: running and
\* stopRequested are cleared, every stop callback that was registered has
\* been invoked and none is registered
DoneCallback(s, fr) ==
    [s EXCEPT !.hist.doneCount[fr.t.run] = @ + 1,
              !.hist.doneErr[fr.t.run] = fr.err,
              !.res = fr.err,
              !.exit.done = TRUE,
              !.hist.exitOk = @ /\ ~s.running /\ ~s.stopRequested
                                /\ s.exit.called = s.exit.n
                                /\ s.stopCallbacks = <<>>]

\* Mutant of RunExit: the stop callbacks stay registered
RunExitKeep(s, fr) ==
    Push([s EXCEPT !.running = FALSE, !.stopRequested = FALSE,
                   !.exit = [began |-> TRUE, n |-> Len(s.stopCallbacks),
                             called |-> 0, done |-> FALSE]],
         InvokeStopCallbacks(s.stopCallbacks)
         \o <<F("DoneCallback", fr.t,
                IF IsStopError(fr.err) THEN "none" ELSE fr.err, FALSE)>>)

\* Mutant of RunExit: the done callback is invoked before the stop callbacks
RunExitDoneFirst(s, fr) ==
    Push([s EXCEPT !.running = FALSE, !.stopCallbacks = <<>>,
                   !.stopRequested = FALSE,
                   !.exit = [began |-> TRUE, n |-> Len(s.stopCallbacks),
                             called |-> 0, done |-> FALSE]],
         <<F("DoneCallback", fr.t,
             IF IsStopError(fr.err) THEN "none" ELSE fr.err, FALSE)>>
         \o InvokeStopCallbacks(s.stopCallbacks))

\* channel._handleRunError, the branch that ends the run
RunExit(s, fr) ==
    Push([s EXCEPT !.running = FALSE, !.stopCallbacks = <<>>,
                   !.stopRequested = FALSE,
                   !.exit = [began |-> TRUE, n |-> Len(s.stopCallbacks),
                             called |-> 0, done |-> FALSE]],
         InvokeStopCallbacks(s.stopCallbacks)
         \o <<F("DoneCallback", fr.t,
                IF IsStopError(fr.err) THEN "none" ELSE fr.err, FALSE)>>)

\* doRun of Channel.prototype.run.  Observation: the topic list it passes
\* to subscribe is not empty
DoRun(s0, fr) ==
    LET s == [s0 EXCEPT !.hist.topicsOk =
                 @ /\ s0.currentSubscriptions[fr.t.run] # <<>>]
    IN
    Push(s, <<Call("Subscribe",
                   [Task("", "subscribe", "run", fr.t.run) EXCEPT
                       !.topics = s.currentSubscriptions[fr.t.run]])>>)

\* Observation, once channel._handleRunError has returned from doRun: the
\* loop is back in its subscribe phase, with a create request issued
ObserveRestart(s, fr) ==
    [s EXCEPT !.hist.restartOk = @ /\
        \E t \in BagToSet(s.tasks) :
            t.op = "create" /\ t.own = "run" /\ t.run = fr.t.run]

\* channel._handleRunError; the observation is made unless the channel is
\* being stopped or was destroyed
HandleRunError(s0, fr) ==
    LET s == IF IsConsumerError(fr.err)
             THEN Phase(s0, fr.t.run,
                        {"subscribing", "consuming", "committing"}, "lost")
             ELSE s0
    IN
    IF IsConsumerError(fr.err)
    THEN Push(Reset([s EXCEPT
                       !.hist.recov = "reset",
                       !.hist.lost = @ \cup ({s.consumerId} \ {NULL})]),
              <<Call("DoRun", fr.t)>>
              \o IF s.active /\ ~(s.running /\ s.stopRequested)
                 THEN <<Call("ObserveRestart", fr.t)>> ELSE <<>>)
    ELSE Push(s, <<F("RunExit", fr.t, fr.err, FALSE)>>)

\* Observation, once the callback of doConsumeLoop has handled a
\* ConsumerError: a create request for the topics requested when the error
\* was observed (fr.t.topics) has been issued
ObserveResubscribe(s, fr) ==
    [s EXCEPT !.hist.resubOk = @ /\
        \E t \in BagToSet(s.tasks) :
            /\ t.op = "create" /\ t.own = "run" /\ t.run = fr.t.run
            /\ t.topics = fr.t.topics]

\* The callback doRun hands to doConsumeLoop; the observation is made unless
\* the channel is being stopped or was destroyed
RunLoopDone(s, fr) ==
    Push([s EXCEPT !.currentSubscriptions[fr.t.run] = s.requestedSubscriptions],
         <<F("HandleRunError", fr.t, fr.err, FALSE)>>
         \o IF IsConsumerError(fr.err) /\ s.active
               /\ ~(s.running /\ s.stopRequested)
            THEN <<Call("ObserveResubscribe",
                        [fr.t EXCEPT !.topics = s.requestedSubscriptions])>>
            ELSE <<>>)

\* doConsumeLoop of Channel.prototype.run, up to the consume call
DoConsumeLoop(s, fr) ==
    Push(s, <<Call("Consume", Task("", "consume", "run", fr.t.run))>>)

\* The callback doConsumeLoop hands to channel._consumeForRun; fr.b is
\* continueRunning
ConsumeLoopCallback(s, fr) ==
    IF fr.err = "none" /\ fr.b THEN Push(s, <<Call("DoConsumeLoop", fr.t)>>)
    ELSE Push(s, <<F("RunLoopDone", fr.t, fr.err, FALSE)>>)

\* The callback doRun hands to subscribe
RunSubscribed(s, fr) ==
    IF fr.err # "none" THEN Push(s, <<F("HandleRunError", fr.t, fr.err, FALSE)>>)
    ELSE Push([Phase(s, fr.t.run, {"start", "subscribing"}, "subscribed")
                  EXCEPT !.hist.recov = IF @ = "created" THEN "subscribed" ELSE @],
              <<Call("DoConsumeLoop", fr.t)>>)

\* channel._handleProcessCallbackResponse; fr.b is continueRunning
HandleProcessCallbackResponse(s, fr) ==
    Push([Phase(s, fr.t.run, {"processing"}, "committing")
             EXCEPT !.hist.twice = @ \/ fr.t.iter \in s.hist.entered,
                   !.hist.entered = @ \cup {fr.t.iter}],
         <<Call("Commit",
                [Task("", "commit", "run", fr.t.run) EXCEPT
                    !.cont = IF s.stopRequested THEN FALSE ELSE fr.b,
                    !.iter = fr.t.iter])>>)

\* The callback of the commit of channel._handleProcessCallbackResponse
RunCommitted(s, fr) ==
    IF fr.err # "none" \/ ~fr.t.cont
    THEN Push(s, <<F("ConsumeLoopCallback", fr.t, fr.err, fr.t.cont)>>)
    ELSE Add([Phase(s, fr.t.run, {"committing"}, "waiting")
                 EXCEPT !.tasks = BagMap([f |-> "orphan"], @),
                        !.runLoopFunc = TRUE, !.runLoopTimeout = TRUE],
             [Task("wait", "runloop", "run", fr.t.run) EXCEPT !.ref = TRUE])

\* channel._runLoopFunc as set by channel._handleProcessCallbackResponse
RunLoopFunc(s, fr) ==
    Push([Phase(s, fr.t.run, {"waiting"}, "waited")
             EXCEPT !.tasks = BagMap([f |-> "orphan"], @),
                   !.runLoopFunc = FALSE, !.runLoopTimeout = FALSE],
         <<F("ConsumeLoopCallback", fr.t, "none", ~s.stopRequested)>>)

\* Observation: the process callback of the run fr.t.run fails with fr.err
ProcessFailed(s, fr) ==
    [s EXCEPT !.failed = IF @.err = "" THEN [run |-> fr.t.run, err |-> fr.err]
                         ELSE @,
              !.hist.failedRuns = @ \cup {fr.t.run}]

\* The completion callback that channel._consumeForRun hands to the process
\* callback; fr.err is the error it is given, fr.b the continueRunning
ProcessSignal(s, fr) ==
    IF fr.err # "none"
    THEN Push(ProcessFailed(s, fr),
              <<F("ConsumeLoopCallback", fr.t, fr.err, FALSE)>>)
    ELSE Push(s, <<F("HandleProcessCallbackResponse", fr.t, "none", fr.b)>>)

\* The process callback throws the error fr.err
ProcessThrows(s, fr) == Throw([ProcessFailed(s, fr) EXCEPT !.exc = fr.err])

\* The try block of channel._consumeForRun is left without an exception
Catch(s, fr) == s

\* channel._consumeForRun, the callback of consume.  s.inp.pm is what the
\* process callback does: ret is what it returns ("throw" when it throws), cb
\* whether it invokes its completion callback before returning ("sync"),
\* later ("async") or never ("none")
ConsumeForRunCallback(s, fr) ==
    IF fr.err # "none"
    THEN Push(s, <<F("ConsumeLoopCallback", fr.t, fr.err, FALSE)>>)
    ELSE
      LET iter == s.ctr.nproc + 1
          pm == s.inp.pm
          t == [fr.t EXCEPT !.iter = iter]
          s1 == [Phase(s, t.run, {"consuming"}, "processing")
                    EXCEPT !.ctr.nproc = iter,
                          !.hist.afterDone = @ \/ s.hist.doneCount[t.run] > 0,
                          !.hist.silent = @ \/ (pm.ret = "undef" /\ pm.cb = "none"),
                          !.hist.endSig[t.run] = @ \/
                              (pm.ret \in {"false", "undef"} /\ pm.cb = "none")]
          s2 == IF pm.cb = "async"
                THEN Add(s1, [Task("proc", "process", "run", t.run) EXCEPT
                                !.iter = iter, !.cont = pm.cbCont,
                                !.sig = pm.ret # "undef",
                                !.err = IF pm.cbErr THEN pm.err ELSE "none"])
                ELSE s1
          signal == IF pm.cb = "sync"
                    THEN <<F("ProcessSignal", t,
                             IF pm.cbErr THEN pm.err ELSE "none", pm.cbCont)>>
                    ELSE <<>>
          return == CASE pm.ret = "throw" ->
                            <<F("ProcessThrows", t, pm.err, FALSE)>>
                      [] pm.ret = "undef" -> <<>>
                      [] OTHER -> <<F("HandleProcessCallbackResponse", t, "none",
                                      pm.ret = "true")>>
      IN Push(s2, signal \o return \o <<Call("Catch", t)>>)

\* The callback of subscribe.  Observation of a subscribe call of the
\* application that completes with success: its topics are the active and
\* the requested subscriptions
SubscribeCallback(s, fr) ==
    IF fr.t.own = "run" THEN Push(s, <<F("RunSubscribed", fr.t, fr.err, FALSE)>>)
    ELSE UserCallback([s EXCEPT !.hist.subDoneOk = @ /\
                          (fr.err = "none" =>
                              /\ s.activeSubscriptions = fr.t.topics
                              /\ s.requestedSubscriptions = fr.t.topics)],
                      "subscribe", fr.err)

\* Observation of a commit that completes
ObserveCommit(s, t, err) ==
    [s EXCEPT !.hist.commitOk = @ /\
                  IF err # "none" THEN s.recordsCommitLog = s.entryLog
                  ELSE t.k = "imm" \/ s.recordsCommitLog = <<>>,
              !.hist.emptyOk = @ /\
                  ((err = "none" /\ t.k = "imm") => s.recordsCommitLog = <<>>),
              !.hist.commits = @ \cup
                  {IF err # "none" THEN "error"
                   ELSE IF t.k = "imm" THEN "empty" ELSE "success"}]

\* Observation, once the completion callback of an operation that failed
\* with a ConsumerError has returned: the consumer state is cleared
ObserveIdle(s, fr) ==
    [s EXCEPT !.hist.idleOk = @ /\ s.consumerId = NULL
                                /\ s.activeSubscriptions = <<>>
                                /\ s.recordsCommitLog = <<>>]

\* The completeCallback of channel._retryOnFailure, per operation; also the
\* callback that callbackAsync invokes with a null error
Complete(s0, fr) ==
    LET t == fr.t
        err == fr.err
        s00 == IF s0.driven /\ t.k # "imm"
               THEN [s0 EXCEPT !.completed = Append(@, err)] ELSE s0
        s1 == IF err = s00.fwd THEN [s00 EXCEPT !.fwd = ""] ELSE s00
        s == IF IsConsumerError(err) /\ t.op \in {"subscribe", "consume", "commit"}
             THEN Push(s1, <<Call("ObserveIdle", t)>>) ELSE s1
    IN CASE t.op = "create" ->
               IF t.via = "subscribe"
               THEN IF err # "none"
                    THEN Push(s, <<F("SubscribeCallback", t, err, FALSE)>>)
                    ELSE Push([s EXCEPT !.hist.recov =
                                 IF @ = "reset" /\ t.own = "run" THEN "created" ELSE @],
                              <<Call("SubscribeInternal",
                                     [Task("", "subscribe", t.own, t.run) EXCEPT
                                         !.topics = t.topics])>>)
               ELSE UserCallback(s, "create", err)
         [] t.op = "subscribe" -> Push(s, <<F("SubscribeCallback", t, err, FALSE)>>)
         [] t.op = "consume" ->
               IF t.own = "run"
               THEN Push(s, <<F("ConsumeForRunCallback", t, err, FALSE)>>)
               ELSE UserCallback(s, "consume", err)
         [] t.op = "commit" ->
               IF t.own = "run"
               THEN Push(ObserveCommit(s, t, err), <<F("RunCommitted", t, err, FALSE)>>)
               ELSE UserCallback(ObserveCommit(s, t, err), "commit", err)
         [] t.op = "delete" -> Push(s, <<F("DeleteCallback", t, err, FALSE)>>)
         [] t.op = "stop" -> Push(s, <<Call("StopCallback", t)>>)
         [] OTHER -> UserCallback(s, t.op, err)

\* Channel.prototype.stop
Stop(s, fr) ==
    LET own == fr.t.own
        cb == fr.t.cb
    IN IF s.running
       THEN LET s1 == [s EXCEPT !.stopRequested = TRUE]
                w == CHOOSE x \in BagToSet(s.tasks) : x.k = "wait" /\ x.ref
                s2 == IF s.runLoopTimeout
                      THEN LET s3 == [Remove(s1, w) EXCEPT
                                         !.runLoopTimeout = FALSE,
                                         !.hist.stoppedInWait[w.run] = TRUE]
                           IN IF s.runLoopFunc
                              THEN Add([s3 EXCEPT !.runLoopFunc = FALSE],
                                       Task("imm", "runloop", "run", w.run))
                              ELSE s3
                      ELSE s1
            IN [s2 EXCEPT !.stopCallbacks =
                              Append(@, [own |-> own, id |-> cb,
                                         throws |-> fr.t.throws]),
                          !.hist.stopRegistered =
                              IF own = "user" THEN @ \cup {cb} ELSE @]
       ELSE Add(s, [Task("imm", "stop", own, 0) EXCEPT
                       !.cb = cb, !.throws = fr.t.throws])

\* Channel.prototype.destroy
Destroy(s, fr) ==
    IF s.active
    THEN Push(s, <<Call("Stop", [fr.t EXCEPT !.op = "stop", !.own = "destroy"])>>)
    ELSE Add(s, Task("imm", "destroy", "user", 0))

\* Channel.prototype.run; fr.b is FALSE when no topics are passed, fr.t.cb is
\* 0 when no process callback is passed
Run(s, fr) ==
    IF ~s.consumerGroup \/ fr.t.cb = 0 \/ s.running THEN Throw(s)
    ELSE IF fr.b /\ Len(fr.t.topics) = 0 THEN Throw(s)
    ELSE IF ~fr.b /\ Len(s.activeSubscriptions) = 0 THEN Throw(s)
    ELSE LET run == s.ctr.nrun + 1
             req == IF fr.b THEN fr.t.topics ELSE s.requestedSubscriptions
         IN Push([s EXCEPT !.requestedSubscriptions = req,
                           !.running = TRUE,
                           !.ctr.nrun = run,
                           !.currentSubscriptions[run] = req],
                 <<Call("DoRun", Task("", "run", "run", run))>>)

\* ------------------------------------------------------- response handlers
\* Observation: the request executor invokes the callback cb with err
Invoked(s, cb, err) == [s EXCEPT !.cbs = Append(@, [cb |-> cb, err |-> err])]

\* Mutant of ErrorCallback: produce is driven by the retry operation
ErrorCallbackRetry(s0, fr) ==
    LET s == Invoked(s0, "error", fr.err)
    IN CASE fr.t.op \in {"create", "subscribe", "consume", "commit", "produce"} ->
               Push(s, <<F("RetryCallback", fr.t, fr.err, FALSE)>>)
         [] fr.t.op = "delete" -> Push(s, <<F("DeleteCallback", fr.t, fr.err, FALSE)>>)
         [] OTHER -> UserCallback(s, fr.t.op, fr.err)

\* channel._sendRequestWithAuthInfo / delete / produce: the errorCallback
ErrorCallback(s0, fr) ==
    LET s == Invoked(s0, "error", fr.err)
    IN CASE fr.t.op \in {"create", "subscribe", "consume", "commit"} ->
               Push(s, <<F("RetryCallback", fr.t, fr.err, FALSE)>>)
         [] fr.t.op = "delete" -> Push(s, <<F("DeleteCallback", fr.t, fr.err, FALSE)>>)
         [] OTHER -> UserCallback(s, fr.t.op, fr.err)

\* Mutant of NotFoundCallback: a 404 for delete leaves the consumer state
NotFoundCallbackKeep(s0, fr) ==
    LET s == Invoked(s0, "notFound", "none")
    IN IF fr.t.op = "delete"
       THEN Push(s, <<F("DeleteCallback", fr.t, "Consumer", FALSE)>>)
       ELSE Push(s, <<F("RetryCallback", fr.t, "Consumer", FALSE)>>)

\* The notFoundCallback of subscribe, consume, commit and delete
NotFoundCallback(s0, fr) ==
    LET s == Invoked(s0, "notFound", "none")
    IN IF fr.t.op = "delete"
       THEN Push(Reset(s), <<F("DeleteCallback", fr.t, "Consumer", FALSE)>>)
       ELSE Push(s, <<F("RetryCallback", fr.t, "Consumer", FALSE)>>)

\* Mutant of CommitSuccess: the commit log is kept
CommitSuccessKeep(s, fr) == Push(s, <<Call("RetryCallback", fr.t)>>)

\* The successCallback of commit
CommitSuccess(s, fr) ==
    Push(Expect(ReplaceLog(s), <<>>), <<Call("RetryCallback", fr.t)>>)

\* The successCallback of each operation; s.inp.id is the consumerInstanceId
\* of a create response (NULL when the field is missing), s.inp.n the number
\* of records of a consume response.  The successCallback of consume pushes
\* the entry of each record before it decodes the payload of the record
SuccessCallback(s0, fr) ==
    LET s == Invoked(s0, "success", "none")
        t == fr.t
        id == s.inp.id
        n == s.inp.n
    IN CASE t.op = "create" ->
               IF id # NULL
               THEN Push([s EXCEPT !.consumerId = id], <<Call("RetryCallback", t)>>)
               ELSE Push(s, <<F("RetryCallback", t, "Permanent", FALSE)>>)
         [] t.op = "subscribe" ->
               Push([s EXCEPT !.activeSubscriptions = t.topics],
                    <<Call("RetryCallback", t)>>)
         [] t.op = "consume" ->
               LET pushed == IF s.inp.bad > 0 THEN s.inp.bad ELSE n
                   entries == [i \in 1..pushed |->
                                  [cid |-> t.cid, off |-> s.ctr.nrec + i]]
                   s1 == PushLog([s EXCEPT !.ctr.nrec = @ + n], entries)
               IN IF ~s.inp.list THEN Throw([s EXCEPT !.exc = "Runtime"])
                  ELSE IF s.inp.bad > 0 THEN Throw([s1 EXCEPT !.exc = "Runtime"])
                  ELSE Push(Expect(s1, s.hist.expected \o entries),
                            <<Call("RetryCallback", t)>>)
         [] t.op = "commit" -> Push(s, <<Call("CommitSuccess", t)>>)
         [] t.op = "delete" -> Push(Reset(s), <<Call("DeleteCallback", t)>>)
         [] OTHER -> UserCallback(s, t.op, "none")

\* Delete requests in flight or waiting for a login
DeleteRequests(B) ==
    SumOver({t \in BagToSet(B) : t.op = "delete" /\ t.k \in {"http", "login"}}, B)

\* Observation, once the answer to the delete request fr.t has been handled
\* (fr.b: it is the answer of the login endpoint): the error given to the
\* callback, the consumer state, and no further delete request or timer
ObserveDeleted(s, fr) ==
    LET outcome == s.inp.outcome
        cleared == /\ s.consumerId = NULL
                   /\ s.activeSubscriptions = <<>>
                   /\ s.recordsCommitLog = <<>>
        unchanged == /\ s.consumerId = consumerId
                     /\ s.activeSubscriptions = activeSubscriptions
                     /\ s.recordsCommitLog = recordsCommitLog
        once == /\ DeleteRequests(s.tasks) < DeleteRequests(tasks)
                /\ \A t \in BagToSet(s.tasks) : ~(t.op = "delete" /\ t.k = "backoff")
    IN [s EXCEPT !.hist.deleteOk = @ /\ once /\
          CASE fr.b /\ outcome = "ok" -> FALSE
            [] fr.b -> unchanged /\ s.res \in {"PermanentAuthentication",
                                               "TemporaryAuthentication"}
            [] outcome = "ok" -> cleared /\ s.res = "none"
            [] outcome = "notfound" -> cleared /\ s.res = "Consumer"
            [] outcome = "error" -> unchanged /\ s.res = "Transport"
            [] OTHER -> unchanged /\ s.res = "Temporary"]

\* Produce requests in flight or waiting for a login
ProduceRequests(B) ==
    SumOver({t \in BagToSet(B) : t.op = "produce" /\ t.k \in {"http", "login"}}, B)

\* Observation, once the answer to the produce request fr.t has been
\* handled (fr.b: it is the answer of the login endpoint): the error given
\* to the callback, the consumer state, and no further request or timer
ObserveProduced(s, fr) ==
    LET outcome == s.inp.outcome
        unchanged == /\ s.consumerId = consumerId
                     /\ s.activeSubscriptions = activeSubscriptions
                     /\ s.recordsCommitLog = recordsCommitLog
        once == /\ ProduceRequests(s.tasks) < ProduceRequests(tasks)
                /\ \A t \in BagToSet(s.tasks) : ~(t.op = "produce" /\ t.k = "backoff")
    IN [s EXCEPT !.hist.produceOk = @ /\ once /\ unchanged /\
          CASE fr.b /\ outcome = "ok" -> FALSE
            [] fr.b -> s.res \in {"PermanentAuthentication",
                                  "TemporaryAuthentication"}
            [] outcome = "ok" -> s.res = "none"
            [] outcome = "error" -> s.res = "Transport"
            [] OTHER -> s.res = "Temporary"]

\* Observation, once the answer to the create request fr.t has been
\* handled: with a consumerInstanceId it is the consumer id, and the active
\* subscriptions and the commit log are empty; without one the operation has
\* completed with a PermanentError and no consumer id is set
ObserveCreated(s, fr) ==
    [s EXCEPT !.hist.createOk = @ /\
        CASE s.inp.outcome = "ok" -> /\ s.consumerId = s.inp.id
                                     /\ s.activeSubscriptions = <<>>
                                     /\ s.recordsCommitLog = <<>>
          [] s.inp.outcome = "noid" -> /\ s.res = "Permanent"
                                       /\ s.consumerId = NULL
          [] OTHER -> TRUE]

\* ChannelAuth.prototype.reset, called by channel._sendRequestWithAuthInfo
AuthReset(s, fr) == IF s.hasAuth THEN [s EXCEPT !.token = NULL] ELSE s

\* channel._sendRequestWithAuthInfo, the callback of sendFunc; on a 401 or
\* 403 the errorCallback is called before the auth object is reset
SendCallback(s0, fr) ==
    LET t == fr.t
        outcome == s0.inp.outcome
        s == CASE t.op = "delete" -> Push(s0, <<Call("ObserveDeleted", t)>>)
               [] t.op = "produce" -> Push(s0, <<Call("ObserveProduced", t)>>)
               [] t.op = "create" -> Push(s0, <<Call("ObserveCreated", t)>>)
               [] OTHER -> s0
    IN CASE outcome = "error" -> Push(s, <<F("ErrorCallback", t, "Transport", FALSE)>>)
         [] outcome \in {"ok", "noid"} -> Push(s, <<Call("SuccessCallback", t)>>)
         [] outcome = "unauth" ->
               Push([s EXCEPT !.hist.rejected = @ \cup ({t.tok} \ {NULL})],
                    <<F("ErrorCallback", t, "Temporary", FALSE),
                         Call("AuthReset", t)>>)
         [] outcome = "notfound"
            /\ t.op \in {"subscribe", "consume", "commit", "delete"} ->
               Push(s, <<Call("NotFoundCallback", t)>>)
         [] OTHER -> Push(s, <<F("ErrorCallback", t, "Temporary", FALSE)>>)

\* Mutant of LoginCallback: an answer with status 200 and no token field is
\* taken for a login
LoginCallbackLenient(s0, fr) ==
    LET s == CASE fr.t.op = "delete" /\ s0.inp.outcome # "ok" ->
                    Push(s0, <<F("ObserveDeleted", fr.t, "none", TRUE)>>)
               [] fr.t.op = "produce" /\ s0.inp.outcome # "ok" ->
                    Push(s0, <<F("ObserveProduced", fr.t, "none", TRUE)>>)
               [] OTHER -> s0
    IN CASE s.inp.outcome \in {"ok", "notoken"} ->
               Push([s EXCEPT !.token = s.inp.tk],
                    <<Call("SendRequestWithAuthInfo", fr.t)>>)
         [] s.inp.outcome \in {"unauth"} ->
               Push(s, <<F("ErrorCallback", fr.t, "PermanentAuthentication", FALSE)>>)
         [] OTHER ->
               Push(s, <<F("ErrorCallback", fr.t, "TemporaryAuthentication", FALSE)>>)

\* ChannelAuth.prototype.authenticate, the callback of the login request
LoginCallback(s0, fr) ==
    LET s == CASE fr.t.op = "delete" /\ s0.inp.outcome # "ok" ->
                    Push(s0, <<F("ObserveDeleted", fr.t, "none", TRUE)>>)
               [] fr.t.op = "produce" /\ s0.inp.outcome # "ok" ->
                    Push(s0, <<F("ObserveProduced", fr.t, "none", TRUE)>>)
               [] OTHER -> s0
    IN CASE s.inp.outcome = "ok" ->
               Push([s EXCEPT !.token = s.inp.tk],
                    <<Call("SendRequestWithAuthInfo", fr.t)>>)
         [] s.inp.outcome \in {"notoken", "unauth"} ->
               Push(s, <<F("ErrorCallback", fr.t, "PermanentAuthentication", FALSE)>>)
         [] OTHER ->
               Push(s, <<F("ErrorCallback", fr.t, "TemporaryAuthentication", FALSE)>>)

\* ---------------------------------------------------------------- execution
\* The call fr is made
Step(s, fr) ==
    CASE fr.f = "Run" -> Run(s, fr)
      [] fr.f = "Stop" -> Stop(s, fr)
      [] fr.f = "Subscribe" -> Subscribe(s, fr)
      [] fr.f = "SubscribeInternal" -> SubscribeInternal(s, fr)
      [] fr.f = "Create" -> Create(s, fr)
      [] fr.f = "Consume" -> Consume(s, fr)
      [] fr.f = "Commit" -> Commit(s, fr)
      [] fr.f = "Delete" -> Delete(s, fr)
      [] fr.f = "Destroy" -> Destroy(s, fr)
      [] fr.f = "Produce" -> Produce(s, fr)
      [] fr.f = "RetryOnFailure" -> RetryOnFailure(s, fr)
      [] fr.f = "Attempt" -> Attempt(s, fr)
      [] fr.f = "Operation" -> Operation(s, fr)
      [] fr.f = "SendRequest" -> SendRequest(s, fr)
      [] fr.f = "SendRequestWithAuthInfo" -> SendRequestWithAuthInfo(s, fr)
      [] fr.f = "SendCallback" -> SendCallback(s, fr)
      [] fr.f = "LoginCallback" -> LoginCallback(s, fr)
      [] fr.f = "ErrorCallback" -> ErrorCallback(s, fr)
      [] fr.f = "NotFoundCallback" -> NotFoundCallback(s, fr)
      [] fr.f = "SuccessCallback" -> SuccessCallback(s, fr)
      [] fr.f = "CommitSuccess" -> CommitSuccess(s, fr)
      [] fr.f = "AuthReset" -> AuthReset(s, fr)
      [] fr.f = "RetryCallback" -> RetryCallback(s, fr)
      [] fr.f = "Complete" -> Complete(s, fr)
      [] fr.f = "SubscribeCallback" -> SubscribeCallback(s, fr)
      [] fr.f = "RunSubscribed" -> RunSubscribed(s, fr)
      [] fr.f = "DoRun" -> DoRun(s, fr)
      [] fr.f = "DoConsumeLoop" -> DoConsumeLoop(s, fr)
      [] fr.f = "ConsumeForRunCallback" -> ConsumeForRunCallback(s, fr)
      [] fr.f = "ProcessSignal" -> ProcessSignal(s, fr)
      [] fr.f = "ProcessThrows" -> ProcessThrows(s, fr)
      [] fr.f = "Catch" -> Catch(s, fr)
      [] fr.f = "HandleProcessCallbackResponse" -> HandleProcessCallbackResponse(s, fr)
      [] fr.f = "RunCommitted" -> RunCommitted(s, fr)
      [] fr.f = "RunLoopFunc" -> RunLoopFunc(s, fr)
      [] fr.f = "ConsumeLoopCallback" -> ConsumeLoopCallback(s, fr)
      [] fr.f = "RunLoopDone" -> RunLoopDone(s, fr)
      [] fr.f = "HandleRunError" -> HandleRunError(s, fr)
      [] fr.f = "ObserveRestart" -> ObserveRestart(s, fr)
      [] fr.f = "ObserveIdle" -> ObserveIdle(s, fr)
      [] fr.f = "ObserveDeleted" -> ObserveDeleted(s, fr)
      [] fr.f = "ObserveCreated" -> ObserveCreated(s, fr)
      [] fr.f = "ObserveProduced" -> ObserveProduced(s, fr)
      [] fr.f = "ObserveResubscribe" -> ObserveResubscribe(s, fr)
      [] fr.f = "RunExit" -> RunExit(s, fr)
      [] fr.f = "StopCallback" -> StopCallback(s, fr)
      [] fr.f = "StopCatch" -> StopCatch(s, fr)
      [] fr.f = "DoneCallback" -> DoneCallback(s, fr)
      [] fr.f = "DeleteCallback" -> DeleteCallback(s, fr)
      [] fr.f = "DestroyDeleted" -> DestroyDeleted(s, fr)

\* A task of the event loop runs to completion: every call on the stack is
\* made, innermost first
RECURSIVE Drain(_)
Drain(s) ==
    IF s.stack = <<>> THEN s
    ELSE Drain(Step([s EXCEPT !.stack = Tail(@)], Head(s.stack)))

\* The task that starts with the call fr, run in the state s
Exec(s, fr) == Drain(Push(s, <<fr>>))

\* ------------------------------------------------------------ environment
\* What a process callback may do (the arguments of channel._consumeForRun's
\* call of processCallback): return a value, throw, invoke its completion
\* callback, or several of these
ProcModes ==
    {[ret |-> r, cb |-> "none", cbErr |-> FALSE, cbCont |-> FALSE,
      err |-> "Process"] : r \in {"true", "false", "undef", "throw"}}
    \cup {[ret |-> "undef", cb |-> "async", cbErr |-> FALSE, cbCont |-> c,
           err |-> "Process"] : c \in BOOLEAN}
    \cup {[ret |-> "undef", cb |-> "async", cbErr |-> TRUE, cbCont |-> FALSE,
           err |-> "Process"]}
    \cup {[ret |-> "true", cb |-> w, cbErr |-> FALSE, cbCont |-> TRUE,
           err |-> "Process"] : w \in {"sync", "async"}}

\* The errors a process callback may throw or give to its completion
\* callback: an Error of its own, or an instance of the ConsumerError or the
\* StopError that the library exports
ProcessErrors == {"Process", "Consumer", "Stop"}

\* A process callback that fails: it throws, or it gives an error to its
\* completion callback before or after it returns
FailModes ==
    {[ret |-> "throw", cb |-> "none", cbErr |-> FALSE, cbCont |-> FALSE,
      err |-> e] : e \in ProcessErrors}
    \cup {[ret |-> "undef", cb |-> w, cbErr |-> TRUE, cbCont |-> FALSE,
           err |-> e] : w \in {"sync", "async"}, e \in ProcessErrors}

\* Outcomes of a request: a transport error, or a response with a status
HttpOutcomes == {"ok", "noid", "unauth", "notfound", "other", "error"}
LoginOutcomes == {"ok", "notoken", "unauth", "other", "error"}

Init ==
    /\ consumerId = NULL
    /\ activeSubscriptions = <<>>
    /\ requestedSubscriptions = <<>>
    /\ recordsCommitLog = <<>>
    /\ active = TRUE
    /\ running = FALSE
    /\ stopRequested = FALSE
    /\ stopCallbacks = <<>>
    /\ runLoopFunc = FALSE
    /\ runLoopTimeout = FALSE
    /\ retryOnFail \in BOOLEAN
    /\ consumerGroup \in BOOLEAN
    /\ hasAuth \in BOOLEAN
    /\ token = NULL
    /\ currentSubscriptions = [r \in 1..MaxRuns |-> <<>>]
    /\ tasks = EmptyBag
    /\ ctr = [nstop |-> 0, next |-> 0, nsub |-> 0, ndestroy |-> 0, fails |-> 0, nid |-> 0, ntok |-> 0, nrec |-> 0,
              nproc |-> 0, nrun |-> 0]
    /\ hist = [last |-> [op |-> "", err |-> "none"],
               doneCount |-> [r \in 1..MaxRuns |-> 0],
               doneErr |-> [r \in 1..MaxRuns |-> "none"],
               stopCbCount |-> [c \in 1..MaxStops |-> 0],
               stopCbWhileRunning |-> FALSE,
               stopRegistered |-> {}, commits |-> {},
               twice |-> FALSE, entered |-> {},
               silent |-> FALSE,
               uncaught |-> FALSE,
               recov |-> "none", lost |-> {}, badConsume |-> FALSE,
               sentLost |-> FALSE, commitOk |-> TRUE, emptyOk |-> TRUE, expected |-> <<>>,
               commitExact |-> TRUE, replayed |-> FALSE,
               restartOk |-> TRUE, resubOk |-> TRUE,
               endSig |-> [r \in 1..MaxRuns |-> FALSE],
               consumedAfterEnd |-> FALSE,
               destroyLeftActive |-> FALSE, closedOk |-> TRUE, fwdOk |-> TRUE, idleOk |-> TRUE,
               execOk |-> TRUE, execLast |-> "",
               stoppedInWait |-> [r \in 1..MaxRuns |-> FALSE],
               consumedAfterStop |-> FALSE,
               rejected |-> {}, staleSent |-> FALSE,
               subClaimed |-> TRUE, subOk |-> TRUE, subCases |-> {},
               deleteOk |-> TRUE, createOk |-> TRUE, runOk |-> TRUE,
               produceOk |-> TRUE, exitOk |-> TRUE,
               inactiveOk |-> TRUE, closedInBackoff |-> FALSE,
               loopOk |-> TRUE, phase |-> [r \in 1..MaxRuns |-> "start"],
               failedRuns |-> {}, sentAfterFail |-> FALSE, failOk |-> TRUE,
               authOk |-> TRUE, topicsOk |-> TRUE, afterDone |-> FALSE,
               decodeOk |-> TRUE, subDoneOk |-> TRUE]

\* Observation of a call made on a channel that is not active: it failed
\* with a PermanentError (thrown, or given to its callback) and sent no
\* request
ObserveClosed(op, s) ==
    (op \in {"create", "subscribe", "consume", "commit", "produce", "delete", "run"}
     /\ ~active) =>
        /\ s.threw \/ s.res = "Permanent"
        /\ \A t \in BagToSet(s.tasks) :
              t.k \in {"http", "login"} => CopiesIn(t, s.tasks) <= CopiesIn(t, tasks)

\* A call of the application: an exception reaches the caller
Called(op, s) ==
    Apply([s EXCEPT !.hist.last = IF s.threw
                                  THEN [op |-> op, err |-> "Thrown"]
                                  ELSE @,
                    !.hist.closedOk = @ /\ ObserveClosed(op, s)])

\* A task of the event loop: an exception is uncaught
Ran(s) == Apply([s EXCEPT !.hist.uncaught = @ \/ s.threw,
                          !.hist.fwdOk = @ /\ s.fwd = ""])

\* The state at a call other than run and stop
Ext == [St EXCEPT !.ctr.next = @ + 1]

\* Observation of a run call that led to the state s: when one of the
\* entry conditions fails, it threw, no task was added (no request, no
\* loop) and running is as it was
ObserveRun(given, topics, proc, s) ==
    LET refused == \/ ~consumerGroup
                   \/ ~proc
                   \/ running
                   \/ given /\ topics = <<>>
                   \/ ~given /\ activeSubscriptions = <<>>
    IN [s EXCEPT !.hist.runOk = @ /\
          IF refused
          THEN /\ s.threw
               /\ s.tasks = tasks
               /\ s.running = running
               /\ s.ctr.nrun = ctr.nrun
          ELSE ~s.threw /\ s.running /\ s.ctr.nrun = ctr.nrun + 1]

\* A run call: with or without topics, with or without a process callback
RunCall ==
    \E given \in BOOLEAN : \E topics \in RunTopics \cup {<<>>} :
    \E proc \in BOOLEAN :
        /\ ~given => topics = <<>>
        /\ Called("run",
                  ObserveRun(given, topics, proc,
                      Exec(St, F("Run", [Task("", "run", "run", 0) EXCEPT
                                           !.topics = topics,
                                           !.cb = IF proc THEN 1 ELSE 0],
                                 "none", given))))

CallRun ==
    /\ ctr.nrun < MaxRuns
    /\ RunCall

\* A run call while a run is in progress
CallRunAgain ==
    /\ running
    /\ RunCall

CallStop ==
    /\ ctr.nstop < MaxStops
    /\ Called("stop", Exec([St EXCEPT !.ctr.nstop = @ + 1],
                           Call("Stop", [Task("", "stop", "user", 0) EXCEPT
                                            !.cb = ctr.nstop + 1])))

\* A stop call with a callback that throws when it is invoked
CallStopThrowing ==
    /\ ctr.nstop < MaxStops
    /\ running
    /\ Called("stop", Exec([St EXCEPT !.ctr.nstop = @ + 1],
                           Call("Stop", [Task("", "stop", "user", 0) EXCEPT
                                            !.cb = ctr.nstop + 1,
                                            !.throws = TRUE])))

\* A task of kind k for the operation op that the state s has and the
\* current state has not
Issued(s, k, op) ==
    {t \in BagToSet(s.tasks) :
        t.k = k /\ t.op = op /\ CopiesIn(t, s.tasks) > CopiesIn(t, tasks)}

\* Observation of a subscribe call that led to the state s: what it did
\* when the topics were the active subscriptions, and when they were not
ObserveSubscribe(topics, s) ==
    LET same == topics = activeSubscriptions
        sent == \E k \in {"http", "login"} :
                \E op \in {"create", "subscribe"} : Issued(s, k, op) # {}
        unchanged == /\ s.consumerId = consumerId
                     /\ s.activeSubscriptions = activeSubscriptions
                     /\ s.recordsCommitLog = recordsCommitLog
        noop == /\ ~sent /\ unchanged /\ ~s.threw
                /\ Issued(s, "imm", "subscribe") # {}
        request == \E k \in {"http", "login"} :
                   \E t \in Issued(s, k, "subscribe") :
                       t.topics = topics /\ t.cid = consumerId
    IN [s EXCEPT
          !.hist.subClaimed = @ /\ IF same THEN noop
                                   ELSE Issued(s, "http", "subscribe") # {}
                                        \/ Issued(s, "login", "subscribe") # {},
          !.hist.subOk = @ /\
              CASE topics = <<>> -> s.threw /\ ~sent /\ unchanged
                [] same -> noop
                [] ~active -> ~sent /\ s.res = "Permanent"
                [] consumerId # NULL -> request
                [] OTHER -> /\ Issued(s, "http", "create") # {}
                               \/ Issued(s, "login", "create") # {}
                            /\ Issued(s, "http", "subscribe") = {}
                            /\ Issued(s, "login", "subscribe") = {},
          !.hist.subCases = @ \cup
              {CASE topics = <<>> -> "empty"
                 [] same -> "same"
                 [] ~active -> "closed"
                 [] consumerId # NULL -> "differ"
                 [] OTHER -> "create"}]

CallSubscribe ==
    /\ ctr.nsub < MaxSubs
    /\ \E topics \in TopicLists \cup {<<>>} :
        Called("subscribe",
               ObserveSubscribe(topics,
                   Exec([St EXCEPT !.ctr.nsub = @ + 1],
                        Call("Subscribe", [Task("", "subscribe", "user", 0) EXCEPT
                                              !.topics = topics]))))

\* A subscribe call made once the operation before it has completed
CallSubscribeNext ==
    /\ ctr.nsub < MaxSeqSubs
    /\ tasks = EmptyBag
    /\ \E topics \in TopicLists :
        Called("subscribe",
               ObserveSubscribe(topics,
                   Exec([St EXCEPT !.ctr.nsub = @ + 1],
                        Call("Subscribe", [Task("", "subscribe", "user", 0) EXCEPT
                                              !.topics = topics]))))

\* Observation of a create call that led to the state s: without a consumer
\* group it threw, sent nothing and changed nothing; otherwise the consumer
\* state is reset
ObserveCreate(s) ==
    [s EXCEPT !.hist.createOk = @ /\
        IF ~consumerGroup
        THEN /\ s.threw
             /\ s.tasks = tasks
             /\ s.consumerId = consumerId
             /\ s.activeSubscriptions = activeSubscriptions
             /\ s.requestedSubscriptions = requestedSubscriptions
             /\ s.recordsCommitLog = recordsCommitLog
             /\ s.active = active /\ s.running = running
        ELSE /\ ~s.threw
             /\ s.consumerId = NULL
             /\ s.activeSubscriptions = <<>>
             /\ s.recordsCommitLog = <<>>]

CallCreate ==
    /\ ctr.next < MaxExt
    /\ Called("create",
              ObserveCreate(Exec(Ext, Call("Create", Task("", "create", "user", 0)))))

CallConsume ==
    /\ ctr.next < MaxExt
    /\ Called("consume", Exec(Ext, Call("Consume", Task("", "consume", "user", 0))))

CallCommit ==
    /\ ctr.next < MaxExt
    /\ Called("commit", Exec(Ext, Call("Commit", Task("", "commit", "user", 0))))

\* Observation of a delete call that led to the state s: the consumer state
\* is as it was; without a consumer id no request is sent and the callback
\* is scheduled, with one a single DELETE for that consumer is issued
ObserveDelete(s) ==
    LET unchanged == /\ s.consumerId = consumerId
                     /\ s.activeSubscriptions = activeSubscriptions
                     /\ s.recordsCommitLog = recordsCommitLog
        sent == DeleteRequests(s.tasks) - DeleteRequests(tasks)
    IN [s EXCEPT !.hist.deleteOk = @ /\ unchanged /\ ~s.threw /\
          IF consumerId = NULL
          THEN sent = 0 /\ Issued(s, "imm", "delete") # {}
          ELSE /\ sent = 1
               /\ \E k \in {"http", "login"} : \E t \in Issued(s, k, "delete") :
                      t.cid = consumerId
               /\ Issued(s, "imm", "delete") = {}]

CallDelete ==
    /\ ctr.next < MaxExt
    /\ Called("delete",
              ObserveDelete(Exec(Ext, Call("Delete", Task("", "delete", "user", 0)))))

CallDestroy ==
    /\ ctr.ndestroy < MaxDestroys
    /\ Called("destroy", Exec([St EXCEPT !.ctr.ndestroy = @ + 1],
                              Call("Destroy", Task("", "destroy", "user", 0))))

CallReset ==
    /\ ctr.next < MaxExt
    /\ Called("reset", Reset(Ext))

\* Observation of a produce call that led to the state s: one request is
\* issued and the consumer state is as it was
ObserveProduce(s) ==
    [s EXCEPT !.hist.produceOk = @
        /\ ~s.threw
        /\ ProduceRequests(s.tasks) = ProduceRequests(tasks) + 1
        /\ s.consumerId = consumerId
        /\ s.activeSubscriptions = activeSubscriptions
        /\ s.recordsCommitLog = recordsCommitLog]

CallProduce ==
    /\ ctr.next < MaxExt
    /\ Called("produce",
              ObserveProduce(Exec(Ext, Call("Produce", Task("", "produce", "user", 0)))))

\* The state in which the response to the request t is handled
Responding(t, outcome, n, pm) ==
    LET id == IF t.op = "create" /\ outcome = "ok" THEN ctr.nid + 1 ELSE NULL
    IN [Remove(St, t) EXCEPT
          !.inp = [outcome |-> outcome, id |-> id, n |-> n,
                   tk |-> NULL, list |-> TRUE, bad |-> 0, pm |-> pm],
          !.ctr.nid = IF id # NULL THEN id ELSE @,
          !.ctr.fails = IF outcome \in {"ok"} THEN @ ELSE @ + 1]

\* The responses that the request t can get in the current state
CanRespond(t, outcome, n, pm) ==
    LET procs == t.op = "consume" /\ t.own = "run" /\ outcome = "ok"
    IN /\ t.k = "http" /\ ~t.late
       /\ outcome # "ok" => ctr.fails < MaxFail
       /\ outcome = "noid" => t.op = "create"
       /\ (outcome = "ok" /\ t.op = "create") => ctr.nid < MaxIds
       /\ (outcome = "ok" /\ t.op \in {"subscribe", "consume", "commit"})
             => t.cid # NULL
       /\ IF t.op = "consume" /\ outcome = "ok"
          THEN ctr.nrec + n <= MaxRecords ELSE n = 0
       /\ IF procs THEN ctr.nproc < MaxProc
          ELSE pm = [ret |-> "undef", cb |-> "none", cbErr |-> FALSE, cbCont |-> FALSE,
                     err |-> "Process"]

\* The server answers a channel request (or the transport fails)
HttpRespond ==
    \E t \in BagToSet(tasks) : \E outcome \in HttpOutcomes :
    \E n \in 0..MaxRecords : \E pm \in ProcModes :
        /\ CanRespond(t, outcome, n, pm)
        /\ Ran(Exec(Responding(t, outcome, n, pm), Call("SendCallback", t)))

\* The status codes the server answers with
Statuses == {200, 201, 202, 203, 204, 401, 403, 404, 500}

\* Mutant of StatusOutcome: every status from 200 to 204 is a success
StatusOutcomeRange(status, hasId, op) ==
    CASE status \in 200..204 ->
            IF op = "create" /\ ~hasId THEN "noid" ELSE "ok"
      [] status \in {401, 403} -> "unauth"
      [] status = 404 -> "notfound"
      [] OTHER -> "other"

\* channel._sendRequestWithAuthInfo, the tests of response.statusCode;
\* hasId: the body of the response has a consumerInstanceId
StatusOutcome(status, hasId, op) ==
    CASE status \in {200, 201, 202, 204} ->
            IF op = "create" /\ ~hasId THEN "noid" ELSE "ok"
      [] status \in {401, 403} -> "unauth"
      [] status = 404 -> "notfound"
      [] OTHER -> "other"

\* Observation of the callbacks the request executor has invoked for the
\* response (error: the transport failed) to the request t
ObserveExecutor(error, status, t, s) ==
    LET class == CASE error -> "transport"
                   [] status \in {200, 201, 202, 204} -> "success"
                   [] status \in {401, 403} -> "unauth"
                   [] status = 404
                      /\ t.op \in {"subscribe", "consume", "commit", "delete"} ->
                         "notFound"
                   [] OTHER -> "other"
        expected == CASE class = "transport" -> [cb |-> "error", err |-> "Transport"]
                      [] class = "success" -> [cb |-> "success", err |-> "none"]
                      [] class = "notFound" -> [cb |-> "notFound", err |-> "none"]
                      [] OTHER -> [cb |-> "error", err |-> "Temporary"]
    IN [s EXCEPT !.hist.execOk = @ /\ s.cbs = <<expected>>
                                   /\ (class = "unauth" => s.token = NULL),
                 !.hist.execLast = class]

\* The server answers a channel request with a status code (or the
\* transport fails)
StatusRespond ==
    \E t \in BagToSet(tasks) : \E error \in BOOLEAN : \E status \in Statuses :
    \E hasId \in BOOLEAN : \E n \in 0..MaxRecords :
        LET outcome == IF error THEN "error" ELSE StatusOutcome(status, hasId, t.op)
            pm == [ret |-> "undef", cb |-> "none", cbErr |-> FALSE, cbCont |-> FALSE,
                   err |-> "Process"]
        IN /\ error => status = 200
           /\ ~hasId => outcome = "noid"
           /\ CanRespond(t, outcome, n, pm)
           /\ Ran(ObserveExecutor(error, status, t,
                      Exec(Responding(t, outcome, n, pm), Call("SendCallback", t))))

\* Observation of the callbacks the request executor has invoked for the
\* answer of the login endpoint to the login made for the request t
ObserveLogin(outcome, t, s) ==
    [s EXCEPT !.hist.execOk = @ /\
        IF outcome = "ok"
        THEN s.cbs = <<>> /\ Issued(s, "http", t.op) # {}
        ELSE /\ Len(s.cbs) = 1
             /\ s.cbs[1].cb = "error"
             /\ s.cbs[1].err \in {"PermanentAuthentication", "TemporaryAuthentication"}
             /\ Issued(s, "http", t.op) = {},
              !.hist.execLast = IF outcome = "ok" THEN @ ELSE "auth"]

\* Channel requests in flight
HttpRequests(B) == SumOver({t \in BagToSet(B) : t.k = "http"}, B)

\* Observation of a login that failed for the request t: the error callback
\* of the request was given an error of the class that belongs to the
\* answer, the token is as it was and no channel request was sent
ObserveAuthFailure(outcome, t, s) ==
    [s EXCEPT !.hist.authOk = @ /\
        (outcome # "ok" =>
            /\ s.cbs = <<[cb |-> "error",
                          err |-> IF outcome \in {"notoken", "unauth"}
                                  THEN "PermanentAuthentication"
                                  ELSE "TemporaryAuthentication"]>>
            /\ s.token = token
            /\ HttpRequests(s.tasks) <= HttpRequests(tasks))]

\* The login endpoint answers (or the transport fails)
LoginRespond ==
    \E t \in BagToSet(tasks) : \E outcome \in LoginOutcomes :
        LET tk == ctr.ntok + 1
            s0 == [Remove(St, t) EXCEPT
                      !.inp.outcome = outcome,
                      !.inp.tk = tk,
                      !.ctr.ntok = IF outcome = "ok" THEN tk ELSE @,
                      !.ctr.fails = IF outcome = "ok" THEN @ ELSE @ + 1]
        IN /\ t.k = "login" /\ ~t.late
           /\ outcome # "ok" => ctr.fails < MaxFail
           /\ outcome = "ok" => ctr.ntok < MaxTok
           /\ Ran(ObserveAuthFailure(outcome, t,
                      ObserveLogin(outcome, t, Exec(s0, Call("LoginCallback", t)))))

\* A request gets no usable answer (the transport fails, or the server
\* answers 500), as often as the operation is retried
TemporaryFailure ==
    \E t \in BagToSet(tasks) : \E outcome \in {"other", "error"} :
        /\ t.k = "http" /\ ~t.late
        /\ t.att < MaxAtt
        /\ Ran(Exec([Remove(St, t) EXCEPT !.inp.outcome = outcome],
                    Call("SendCallback", t)))

\* The timer of the retry operation fires: the next attempt
BackoffFire ==
    \E t \in BagToSet(tasks) :
        /\ t.k = "backoff" /\ ~t.late
        /\ Ran(Exec(Remove(St, t),
                    Call("Attempt", [t EXCEPT !.k = "", !.err = "none",
                                              !.wait = 0])))

\* A callback scheduled with setImmediate runs
ImmediateFire ==
    \E t \in BagToSet(tasks) :
        /\ t.k = "imm"
        /\ Ran(Exec(Remove(St, t),
                    Call(IF t.op = "runloop" THEN "RunLoopFunc" ELSE "Complete", t)))

\* The timer set by channel._handleProcessCallbackResponse fires
WaitFire ==
    \E t \in BagToSet(tasks) :
        /\ t.k = "wait" /\ ~t.late
        /\ Ran(Exec(Remove(St, t), Call("RunLoopFunc", t)))

\* The process callback invokes its completion callback after it returned
ProcessSignals ==
    \E t \in BagToSet(tasks) :
        /\ t.k = "proc"
        /\ Ran(Exec(Remove(St, t), F("ProcessSignal", t, t.err, t.cont)))

Next ==
    \/ CallRun
    \/ CallStop
    \/ CallSubscribe
    \/ CallCreate
    \/ CallConsume
    \/ CallCommit
    \/ CallDelete
    \/ CallDestroy
    \/ CallReset
    \/ CallProduce
    \/ HttpRespond
    \/ LoginRespond
    \/ BackoffFire
    \/ ImmediateFire
    \/ WaitFire
    \/ ProcessSignals
    \/ TemporaryFailure
    \/ CallRunAgain
    \/ CallStopThrowing

\* A run loop with stop calls
NextLoop ==
    \/ CallRun
    \/ CallStop
    \/ HttpRespond
    \/ LoginRespond
    \/ BackoffFire
    \/ ImmediateFire
    \/ WaitFire
    \/ ProcessSignals

Spec == Init /\ [][NextLoop]_vars

\* A channel constructed with a consumer group and without an auth object
InitPlain == Init /\ consumerGroup /\ ~hasAuth

\* A run loop with stop calls, during which the application calls reset
NextReset ==
    \/ CallRun
    \/ CallStop
    \/ CallReset
    \/ HttpRespond
    \/ BackoffFire
    \/ ImmediateFire
    \/ WaitFire
    \/ ProcessSignals

SpecReset == InitPlain /\ [][NextReset]_vars

\* A run loop during which the application calls commit
NextCommit ==
    \/ CallRun
    \/ CallCommit
    \/ HttpRespond
    \/ BackoffFire
    \/ ImmediateFire
    \/ WaitFire
    \/ ProcessSignals

SpecCommit == InitPlain /\ [][NextCommit]_vars

\* Every call, at any time
SpecAll == Init /\ [][Next]_vars

TypeOK ==
    /\ consumerId \in 0..MaxIds
    /\ active \in BOOLEAN /\ running \in BOOLEAN /\ stopRequested \in BOOLEAN
    /\ token \in 0..MaxTok
    /\ Len(recordsCommitLog) <= MaxRecords
    /\ \A t \in BagToSet(tasks) :
          t.k \in {"login", "http", "backoff", "imm", "wait", "proc"}

\* A run loop during which the application calls destroy
NextDestroy ==
    \/ CallRun
    \/ CallDestroy
    \/ HttpRespond
    \/ LoginRespond
    \/ BackoffFire
    \/ ImmediateFire
    \/ WaitFire
    \/ ProcessSignals

SpecDestroy == Init /\ [][NextDestroy]_vars

\* The operations called one by one by the application, without a run loop,
\* on a channel constructed with a consumer group and without an auth object
NextUser ==
    \/ CallSubscribe
    \/ CallCreate
    \/ CallConsume
    \/ CallCommit
    \/ CallDelete
    \/ CallDestroy
    \/ CallReset
    \/ CallProduce
    \/ HttpRespond
    \/ BackoffFire
    \/ ImmediateFire

SpecUser == InitPlain /\ [][NextUser]_vars

\* The request executor at work for the operations called one by one, the
\* server answering with status codes
NextExecutor ==
    \/ CallSubscribe
    \/ CallCreate
    \/ CallConsume
    \/ CallCommit
    \/ CallDelete
    \/ CallProduce
    \/ StatusRespond
    \/ LoginRespond
    \/ ImmediateFire

\* A channel constructed with a consumer group and retryOnFail false
InitNoRetry == Init /\ consumerGroup /\ ~retryOnFail

SpecExecutor == InitNoRetry /\ [][NextExecutor]_vars

\* A channel constructed with a consumer group, without an auth object and
\* with retryOnFail true
InitRetry == InitPlain /\ retryOnFail

\* Operations called by the application whose requests fail again and again
NextRetry ==
    \/ CallSubscribe
    \/ HttpRespond
    \/ TemporaryFailure
    \/ BackoffFire
    \/ ImmediateFire

SpecRetry == InitRetry /\ [][NextRetry]_vars

\* A channel constructed with a consumer group, without an auth object and
\* with retryOnFail false
InitStop == InitPlain /\ ~retryOnFail

\* A run loop that is stopped or destroyed, with stop callbacks that return
\* and stop callbacks that throw
NextStop ==
    \/ CallRun
    \/ CallStopThrowing
    \/ CallDestroy
    \/ HttpRespond
    \/ ImmediateFire
    \/ WaitFire
    \/ ProcessSignals

SpecStop == InitStop /\ [][NextStop]_vars

\* Observation of a consume call of the application whose request was
\* answered with n records: when the response cannot be decoded the commit
\* log is as it was and the callback was given an error; otherwise the
\* entries of the records were appended in order and the callback was given
\* no error
ObserveConsumed(t, n, bad, list, s) ==
    [s EXCEPT !.hist.decodeOk = @ /\
        IF ~list \/ bad > 0
        THEN /\ s.recordsCommitLog = recordsCommitLog
             /\ s.res \notin {"", "none"}
        ELSE /\ s.recordsCommitLog =
                    recordsCommitLog \o
                    [i \in 1..n |-> [cid |-> t.cid, off |-> ctr.nrec + i]]
             /\ s.res = "none"
             /\ ~s.threw]

\* The server answers a consume request of the application with status 200:
\* with or without a records list, each payload decodable or not
ConsumeAnswered ==
    \E t \in BagToSet(tasks) : \E n \in 0..MaxRecords :
    \E bad \in 0..MaxRecords : \E list \in BOOLEAN :
        LET pm == [ret |-> "undef", cb |-> "none", cbErr |-> FALSE,
                   cbCont |-> FALSE, err |-> "Process"]
        IN /\ t.op = "consume" /\ t.own = "user"
           /\ bad <= n
           /\ ~list => n = 0
           /\ CanRespond(t, "ok", n, pm)
           /\ Ran(ObserveConsumed(t, n, bad, list,
                      Exec([Responding(t, "ok", n, pm) EXCEPT
                               !.inp.list = list, !.inp.bad = bad],
                           Call("SendCallback", t))))

\* The operations of a consumer called one by one by the application
NextDecode ==
    \/ CallSubscribe
    \/ CallConsume
    \/ CallCommit
    \/ HttpRespond
    \/ ConsumeAnswered
    \/ BackoffFire
    \/ ImmediateFire

SpecDecode == InitPlain /\ [][NextDecode]_vars

\* Subscribe calls made one after the other, each once the one before it
\* has completed
NextSubscribe ==
    \/ CallSubscribeNext
    \/ HttpRespond
    \/ ImmediateFire

SpecSubscribe == InitStop /\ [][NextSubscribe]_vars

\* The server answers a consume request of a run loop with records, and the
\* process callback fails
ProcessFails ==
    \E t \in BagToSet(tasks) : \E n \in 0..MaxRecords : \E pm \in FailModes :
        /\ t.op = "consume" /\ t.own = "run"
        /\ CanRespond(t, "ok", n, pm)
        /\ Ran(Exec(Responding(t, "ok", n, pm), Call("SendCallback", t)))

\* A run loop with stop calls whose process callback may fail
NextProcess ==
    \/ CallRun
    \/ CallStop
    \/ HttpRespond
    \/ ProcessFails
    \/ BackoffFire
    \/ ImmediateFire
    \/ WaitFire
    \/ ProcessSignals

SpecProcess == InitPlain /\ [][NextProcess]_vars

\* --------------------------------------------------------------- claims
\* A task of run loop r is pending
RunPending(r) == \E t \in BagToSet(tasks) : t.own = "run" /\ t.run = r

\* C1: with retryOnFail = true another attempt is scheduled only after an
\* error of a temporary kind: no backoff timer is ever pending for a
\* PermanentError or a PermanentAuthenticationError.
C1_NoRetryOfPermanent ==
    \A t \in BagToSet(tasks) : t.k = "backoff" => ~IsPermanentError(t.err)

\* C9: in one iteration of the run loop the commit and wait phase is entered
\* once, whatever the process callback signals: a second signal of the same
\* iteration is not acted upon.
C9_FirstSignalWins == ~hist.twice

\* C10: once the process callback has returned false or no value, no further
\* consume request is sent, and the run is either over (done callback
\* invoked) or still has a step to take towards its end.
C10_RunEnds ==
    /\ ~hist.consumedAfterEnd
    /\ \A r \in 1..MaxRuns :
          (hist.endSig[r] /\ hist.doneCount[r] = 0) => RunPending(r)

\* C2: after a ConsumerError in the run loop the loop is back in its
\* subscribe phase with a create request issued, it creates and subscribes
\* a fresh consumer before it sends the next consume request, and no consume
\* request carries a lost consumer id.
C2_RecoverBeforeConsume ==
    /\ hist.restartOk
    /\ ~hist.badConsume
    /\ ~hist.sentLost

\* C3: a stop callback registered during a run is invoked once, and not
\* while the run is running; it is registered only while the channel runs;
\* once the done callback of the latest run has fired, running and
\* stopRequested are false and no stop callback is left registered.
C3_StopCallbacksOnce ==
    /\ ~hist.stopCbWhileRunning
    /\ (stopCallbacks # <<>> \/ stopRequested) => running
    /\ \A c \in hist.stopRegistered :
          /\ hist.stopCbCount[c] <= 1
          /\ hist.stopCbCount[c] = 1 <=>
                ~\E i \in 1..Len(stopCallbacks) : stopCallbacks[i].id = c
    /\ (ctr.nrun > 0 /\ hist.doneCount[ctr.nrun] > 0) =>
          /\ ~running
          /\ ~stopRequested
          /\ stopCallbacks = <<>>

C3_Witness ==
    /\ hist.stopRegistered # {}
    /\ ctr.nrun > 0
    /\ hist.doneCount[ctr.nrun] > 0
    /\ \A c \in hist.stopRegistered : hist.stopCbCount[c] = 1

\* C5 (as claimed): whenever a commit completes with success the commit log
\* is empty, and whenever it completes with an error the commit log is what
\* it was when the failing attempt was handled.
C5_CommitLogAfterCommit == hist.commitOk /\ hist.emptyOk

\* Commit requests in flight or waiting for a login, and commits scheduled
\* to complete without a request
CommitRequests(B) ==
    SumOver({t \in BagToSet(B) : t.op = "commit" /\ t.k \in {"http", "login"}}, B)

EmptyCommits(B) ==
    SumOver({t \in BagToSet(B) : t.op = "commit" /\ t.k = "imm"}, B)

\* C5 (amended): when a commit request is answered with success the commit
\* log is empty as the completion callback runs; when commit completes with
\* an error the commit log is what it was before the failing attempt was
\* handled; a commit called on an empty commit log sends no request and is
\* scheduled to complete with success (the commit log then holds whatever
\* a consume appended in the meantime).
C5_CommitRequestEmptiesLog ==
    /\ [](hist.commitOk)
    /\ [][EmptyCommits(tasks') > EmptyCommits(tasks) =>
             CommitRequests(tasks') <= CommitRequests(tasks)]_vars

C5_Witness == hist.commits = {"success", "error", "empty"}

\* C6: every commit request carries exactly the entries of the records
\* returned by successful consume calls since the last successful commit or
\* reset, in the order of consumption.
C6_CommitCarriesConsumed == hist.commitExact

\* C7: no commit request sent for a consumer created after a consumer loss
\* carries an offset of a record consumed under the lost consumer id.
C7_NoReplayOfLostOffsets == ~hist.replayed

\* C4: a StopError never reaches the done callback, and while a stop is
\* requested on a running channel whose process callback has signalled
\* every time, a task of the run loop is pending that will lead it to its
\* done callback.
C4_StopLeadsToDone ==
    /\ \A r \in 1..MaxRuns : hist.doneErr[r] # "Stop"
    /\ (running /\ stopRequested /\ ~hist.silent) =>
          \E t \in BagToSet(tasks) : t.own = "run"

\* C8: after a ConsumerError in the consume or commit phase the loop issues
\* a create request for the topic list that was in requestedSubscriptions
\* when the error was observed.
C8_ResubscribeRequested == hist.resubOk

\* C11: once the completion callback of a destroy called on an active
\* channel has been invoked, the channel is inactive, whatever the outcome
\* of the DELETE request.
C11_DestroyDeactivates == ~hist.destroyLeftActive

\* C12: every create, subscribe, consume, commit, produce, delete or run
\* invoked once active is false fails with a PermanentError and issues no
\* HTTP request.
C12_NoOperationAfterDestroy == hist.closedOk

\* C13: in every reachable state a running channel is active, also when
\* destroy and run are interleaved.
C13_RunningImpliesActive == running => active

\* C14: in every reachable state the active subscriptions are non-empty
\* only if a consumer id is set, also when reset is called while a
\* subscription request is in flight.
C14_SubscriptionsNeedConsumer == activeSubscriptions # <<>> => consumerId # NULL

C17_NoRequestWithRejectedToken == ~hist.staleSent

\* C18: once stop has been called while the run loop waits between two
\* queries, no consume request is sent for that run any more, the run is
\* over or has a step to take towards its end, and its done callback gets
\* no error.
C18_StopInWaitEndsRun ==
    /\ ~hist.consumedAfterStop
    /\ \A r \in 1..MaxRuns :
          hist.stoppedInWait[r] =>
              IF hist.doneCount[r] = 0 THEN RunPending(r)
              ELSE hist.doneErr[r] = "none"

C18_Witness ==
    \E r \in 1..MaxRuns : hist.stoppedInWait[r] /\ hist.doneCount[r] > 0

\* C19: once a subscribe, consume or commit, called by the application or
\* by the run loop, has completed with a ConsumerError, no consumer id is
\* set and the active subscriptions and the commit log are empty.
C19_ConsumerErrorResets == hist.idleOk

RunRequests(B) ==
    SumOver({t \in BagToSet(B) : t.own = "run" /\ t.k \in {"http", "login"}}, B)

\* C21: during a run at most one HTTP request or login request issued on
\* behalf of the run loop is outstanding at any time.
C21_OneRunRequest == RunRequests(tasks) <= 1

\* C22: the wait before retry number n (0, 1, 2, ..) of an operation is
\* min(10 s, 2^n x 1 s): every backoff timer is set to that many
\* milliseconds, which lies between 1 s and 10 s.
C22_BackoffDoubles ==
    \A t \in BagToSet(tasks) :
        t.k = "backoff" =>
            /\ t.wait = Min(MAX_RETRY_TIMEOUT,
                            Pow(RETRY_FACTOR, t.att - 1) * MIN_RETRY_TIMEOUT)
            /\ t.wait >= MIN_RETRY_TIMEOUT
            /\ t.wait <= MAX_RETRY_TIMEOUT

\* C23: a delete call changes no consumer state; without a consumer id it
\* sends no request and completes with success; with one it sends a single
\* DELETE, which is never retried: on success or 404 the consumer id, the
\* subscriptions and the commit log are cleared (the 404 is reported as a
\* ConsumerError), on any other outcome they are left as they were and the
\* error is reported.
C23_DeleteClearsOnAnswer == hist.deleteOk

C23_Witness ==
    /\ hist.last = [op |-> "delete", err |-> "Consumer"]
    /\ hist.lost = {} /\ ctr.nid > 0
    /\ consumerId = NULL /\ activeSubscriptions = <<>> /\ recordsCommitLog = <<>>

\* C24: create resets the consumer state before anything else; when its
\* request is answered with a consumerInstanceId, that is the consumer id
\* and the active subscriptions and the commit log are empty; when the
\* answer has no consumerInstanceId, the operation completes with a
\* PermanentError and no consumer id is set; without a consumer group create
\* throws, sends nothing and changes nothing.
C24_CreateSetsConsumer == hist.createOk

\* C25: a run call throws, adds no task (no loop, no request) and leaves
\* running as it was when no consumer group is set, no process callback is
\* given, a run is in progress, the topics are an empty list, or no topics
\* are passed and there are no active subscriptions; and a run loop is at
\* work only while running is true, so that at most one is at any time.
C25_RunEntry ==
    /\ hist.runOk
    /\ \A r \in 1..MaxRuns : RunPending(r) => running

C27_ExitOrder == hist.exitOk

C27_Witness ==
    /\ ctr.nrun > 0 /\ hist.doneCount[ctr.nrun] = 1
    /\ ctr.ndestroy > 0
    /\ hist.stopCbCount[1] = 1
    /\ ~hist.uncaught
    /\ \E t \in BagToSet(tasks) : t.op = "delete" /\ t.own = "destroy"

\* C28: the steps of a run loop are taken in order: a consume request is
\* sent once the loop has subscribed or has waited (or to retry the one
\* before), the process callback is invoked once per answered consume
\* request, commit is called once after the process callback, the wait
\* follows the commit, and a create or subscription request is sent only at
\* the start of the run or after a ConsumerError.
C28_LoopOrder == hist.loopOk

\* Backoff timers pending for the run loops
RunBackoffs ==
    {t \in BagToSet(tasks) : t.k = "backoff" /\ t.own = "run"}

\* C29: a stop call made while the run loop sleeps in a backoff of the retry
\* operation cancels the sleep: after the call no backoff timer of the run
\* loop is pending.
C29_StopCancelsBackoff ==
    [][(running /\ ctr.nstop' > ctr.nstop) => RunBackoffs' = {}]_vars

\* C30: when the retry driver is entered, or an attempt is due after a
\* backoff, on a channel that is not active, the operation completes with a
\* PermanentError given to its completion callback once, and no request is
\* sent and no timer set.
C30_InactiveCompletes == hist.inactiveOk

C30_Witness ==
    /\ hist.closedInBackoff
    /\ ~active
    /\ hist.last.err = "Permanent"
    /\ \A t \in BagToSet(tasks) : t.k \notin {"backoff", "http"}

\* C31: once the process callback of a run has thrown, or has given an error
\* to its completion callback, the run has left through its exit in the same
\* turn (running is false) with the done callback given that error, and no
\* consume or commit request is sent for the run any more.
C31_ProcessErrorEndsRun == hist.failOk /\ ~hist.sentAfterFail

\* Login requests in flight
LoginRequests(B) == SumOver({t \in BagToSet(B) : t.k = "login"}, B)

\* C32: a token acquired by a login stays the cached token until it is
\* reset: it is replaced by no other token, and while it is cached no login
\* request is issued and every request is sent with a token.
C32_TokenCachedUntilReset ==
    /\ [](\A t \in BagToSet(tasks) : (hasAuth /\ t.k = "http") => t.tok # NULL)
    /\ [][token # NULL =>
             /\ token' \in {token, NULL}
             /\ token' = token => LoginRequests(tasks') <= LoginRequests(tasks)]_vars

C34_CommitBeforeCleanExit ==
    \A r \in 1..MaxRuns :
        (hist.doneCount[r] > 0 /\ hist.doneErr[r] = "none") =>
            recordsCommitLog = <<>> /\ hist.expected = <<>>

\* C35: every time a run loop enters its subscribe phase, at its start and
\* after a ConsumerError, the topic list it passes to subscribe is not
\* empty.
C35_LoopTopicsNonEmpty == hist.topicsOk

\* C36: the done callback of a run is invoked at most once, whatever the
\* process callback signals and however the commit ends.
C36_DoneAtMostOnce == \A r \in 1..MaxRuns : hist.doneCount[r] <= 1

\* C37: while running is false no wait timer of a run loop is pending and
\* no run loop has a task pending, and once the done callback of a run has
\* been invoked no consume, commit or subscription request is sent for that
\* run and its process callback is invoked no more.
C37_NoLoopAfterDone ==
    /\ ~hist.afterDone
    /\ ~running => \A t \in BagToSet(tasks) : t.k # "wait" /\ t.own # "run"

\* C38: while running is true and every invoked process callback has
\* signalled or will signal, a task of a run loop is pending (a request, a
\* login, a backoff timer, the wait timer, a scheduled callback or a signal
\* of the process callback), also after a reset or delete call made during
\* the run.
C38_RunNeverStuck ==
    (running /\ ~hist.silent) =>
        \E r \in 1..MaxRuns : RunPending(r)

\* C39: when the response to a consume cannot be decoded (no records list,
\* or a payload that is not base64-encoded JSON), the commit log is what it
\* was before the response and the completion callback is given an error;
\* otherwise one entry per record is appended, in the order of the response,
\* and the completion callback is given no error.
C39_ConsumeAllOrNothing == hist.decodeOk

\* C40: when a subscribe call of the application completes with success,
\* also when it found its topics subscribed already, its topics are the
\* active subscriptions and the requested subscriptions.
C40_SubscribeSetsRequested == hist.subDoneOk

====
